---- MODULE Spec2Model ----
(***************************************************************************)
(* Model of git_push.py: an interactive helper that runs the pipeline      *)
(*   git rev-parse --git-dir -> git status --porcelain -> git add .        *)
(*   -> input() message -> input() confirmation loop -> git commit -m      *)
(*   -> git branch --show-current -> git push origin <branch>              *)
(* with sys.exit at every failing step.                                    *)
(*                                                                         *)
(* Text is a sequence of Unicode code points (121 = "y", 26159 = U+662F),  *)
(* so that str.strip() and str.lower() are computed, not assumed.          *)
(***************************************************************************)
EXTENDS Integers, Sequences, FiniteSets, TLC

VARIABLES
    pc,         \* position of main(): the step about to run, or "done"
    calls,      \* every run_command call so far: [argv, rc], in call order
    last,       \* the tuple returned by the latest run_command call
    raised,     \* whether subprocess.run raised in the latest run_command call
    status,     \* main's local `status`
    message,    \* main's local `message`: <<>> before the prompt and for None
    typed,      \* the line input() returned at the message prompt
    shown,      \* the message printed in the header of confirm_commit
    branch,     \* push_to_remote's local `branch` as run_command returned it
    reads,      \* number of input() calls that returned or raised so far
    line,       \* what the latest input() call produced (a line, or EOF)
    reprompts,  \* times confirm_commit printed its re-prompt line
    answer,     \* "none", or what confirm_commit returned: "yes" / "no"
    log,        \* tags of the progress lines printed, in order
    exitCode    \* <<>> while running, <<n>> once the process has exited with n

vars == <<pc, calls, last, raised, status, message, typed, shown, branch,
          reads, line, reprompts, answer, log, exitCode>>

-----------------------------------------------------------------------------
(* Bounds of the model *)

\* longest input line built from LineAlphabet
MaxLineLen == 2
\* re-prompts of the confirmation loop that the model follows
MaxReprompts == 2

-----------------------------------------------------------------------------
(* Text: str.strip() and str.lower() *)

\* code points for which str.isspace() is true (what str.strip() removes)
Whitespace ==
    (9..13) \cup (28..32) \cup {133, 160, 5760} \cup (8192..8202)
        \cup {8232, 8233, 8239, 8287, 12288}

\* whether c lies in one of the runs <<first, last, step, ...>> of a table
InRuns(c, table) ==
    \E r \in table : c >= r[1] /\ c <= r[2] /\ (c - r[1]) % r[3] = 0

\* str.lower() of one code point (Unicode 14.0.0, the simple lower-case
\* mappings): runs <<first, last, step, offset>> of the code points that
\* change, each mapped to itself plus the offset
LowerTable ==
    { <<65, 90, 1, 32>>, <<192, 214, 1, 32>>, <<216, 222, 1, 32>>,
      <<256, 302, 2, 1>>, <<306, 310, 2, 1>>, <<313, 327, 2, 1>>,
      <<330, 374, 2, 1>>, <<376, 376, 1, -121>>, <<377, 381, 2, 1>>,
      <<385, 385, 1, 210>>, <<386, 388, 2, 1>>, <<390, 390, 1, 206>>,
      <<391, 391, 1, 1>>, <<393, 394, 1, 205>>, <<395, 395, 1, 1>>,
      <<398, 398, 1, 79>>, <<399, 399, 1, 202>>, <<400, 400, 1, 203>>,
      <<401, 401, 1, 1>>, <<403, 403, 1, 205>>, <<404, 404, 1, 207>>,
      <<406, 406, 1, 211>>, <<407, 407, 1, 209>>, <<408, 408, 1, 1>>,
      <<412, 412, 1, 211>>, <<413, 413, 1, 213>>, <<415, 415, 1, 214>>,
      <<416, 420, 2, 1>>, <<422, 422, 1, 218>>, <<423, 423, 1, 1>>,
      <<425, 425, 1, 218>>, <<428, 428, 1, 1>>, <<430, 430, 1, 218>>,
      <<431, 431, 1, 1>>, <<433, 434, 1, 217>>, <<435, 437, 2, 1>>,
      <<439, 439, 1, 219>>, <<440, 440, 1, 1>>, <<444, 444, 1, 1>>,
      <<452, 452, 1, 2>>, <<453, 453, 1, 1>>, <<455, 455, 1, 2>>,
      <<456, 456, 1, 1>>, <<458, 458, 1, 2>>, <<459, 475, 2, 1>>,
      <<478, 494, 2, 1>>, <<497, 497, 1, 2>>, <<498, 500, 2, 1>>,
      <<502, 502, 1, -97>>, <<503, 503, 1, -56>>, <<504, 542, 2, 1>>,
      <<544, 544, 1, -130>>, <<546, 562, 2, 1>>, <<570, 570, 1, 10795>>,
      <<571, 571, 1, 1>>, <<573, 573, 1, -163>>, <<574, 574, 1, 10792>>,
      <<577, 577, 1, 1>>, <<579, 579, 1, -195>>, <<580, 580, 1, 69>>,
      <<581, 581, 1, 71>>, <<582, 590, 2, 1>>, <<880, 882, 2, 1>>,
      <<886, 886, 1, 1>>, <<895, 895, 1, 116>>, <<902, 902, 1, 38>>,
      <<904, 906, 1, 37>>, <<908, 908, 1, 64>>, <<910, 911, 1, 63>>,
      <<913, 929, 1, 32>>, <<931, 939, 1, 32>>, <<975, 975, 1, 8>>,
      <<984, 1006, 2, 1>>, <<1012, 1012, 1, -60>>, <<1015, 1015, 1, 1>>,
      <<1017, 1017, 1, -7>>, <<1018, 1018, 1, 1>>,
      <<1021, 1023, 1, -130>>, <<1024, 1039, 1, 80>>,
      <<1040, 1071, 1, 32>>, <<1120, 1152, 2, 1>>, <<1162, 1214, 2, 1>>,
      <<1216, 1216, 1, 15>>, <<1217, 1229, 2, 1>>, <<1232, 1326, 2, 1>>,
      <<1329, 1366, 1, 48>>, <<4256, 4293, 1, 7264>>,
      <<4295, 4295, 1, 7264>>, <<4301, 4301, 1, 7264>>,
      <<5024, 5103, 1, 38864>>, <<5104, 5109, 1, 8>>,
      <<7312, 7354, 1, -3008>>, <<7357, 7359, 1, -3008>>,
      <<7680, 7828, 2, 1>>, <<7838, 7838, 1, -7615>>,
      <<7840, 7934, 2, 1>>, <<7944, 7951, 1, -8>>, <<7960, 7965, 1, -8>>,
      <<7976, 7983, 1, -8>>, <<7992, 7999, 1, -8>>, <<8008, 8013, 1, -8>>,
      <<8025, 8031, 2, -8>>, <<8040, 8047, 1, -8>>, <<8072, 8079, 1, -8>>,
      <<8088, 8095, 1, -8>>, <<8104, 8111, 1, -8>>, <<8120, 8121, 1, -8>>,
      <<8122, 8123, 1, -74>>, <<8124, 8124, 1, -9>>,
      <<8136, 8139, 1, -86>>, <<8140, 8140, 1, -9>>,
      <<8152, 8153, 1, -8>>, <<8154, 8155, 1, -100>>,
      <<8168, 8169, 1, -8>>, <<8170, 8171, 1, -112>>,
      <<8172, 8172, 1, -7>>, <<8184, 8185, 1, -128>>,
      <<8186, 8187, 1, -126>>, <<8188, 8188, 1, -9>>,
      <<8486, 8486, 1, -7517>>, <<8490, 8490, 1, -8383>>,
      <<8491, 8491, 1, -8262>>, <<8498, 8498, 1, 28>>,
      <<8544, 8559, 1, 16>>, <<8579, 8579, 1, 1>>, <<9398, 9423, 1, 26>>,
      <<11264, 11311, 1, 48>>, <<11360, 11360, 1, 1>>,
      <<11362, 11362, 1, -10743>>, <<11363, 11363, 1, -3814>>,
      <<11364, 11364, 1, -10727>>, <<11367, 11371, 2, 1>>,
      <<11373, 11373, 1, -10780>>, <<11374, 11374, 1, -10749>>,
      <<11375, 11375, 1, -10783>>, <<11376, 11376, 1, -10782>>,
      <<11378, 11378, 1, 1>>, <<11381, 11381, 1, 1>>,
      <<11390, 11391, 1, -10815>>, <<11392, 11490, 2, 1>>,
      <<11499, 11501, 2, 1>>, <<11506, 11506, 1, 1>>,
      <<42560, 42604, 2, 1>>, <<42624, 42650, 2, 1>>,
      <<42786, 42798, 2, 1>>, <<42802, 42862, 2, 1>>,
      <<42873, 42875, 2, 1>>, <<42877, 42877, 1, -35332>>,
      <<42878, 42886, 2, 1>>, <<42891, 42891, 1, 1>>,
      <<42893, 42893, 1, -42280>>, <<42896, 42898, 2, 1>>,
      <<42902, 42920, 2, 1>>, <<42922, 42922, 1, -42308>>,
      <<42923, 42923, 1, -42319>>, <<42924, 42924, 1, -42315>>,
      <<42925, 42925, 1, -42305>>, <<42926, 42926, 1, -42308>>,
      <<42928, 42928, 1, -42258>>, <<42929, 42929, 1, -42282>>,
      <<42930, 42930, 1, -42261>>, <<42931, 42931, 1, 928>>,
      <<42932, 42946, 2, 1>>, <<42948, 42948, 1, -48>>,
      <<42949, 42949, 1, -42307>>, <<42950, 42950, 1, -35384>>,
      <<42951, 42953, 2, 1>>, <<42960, 42960, 1, 1>>,
      <<42966, 42968, 2, 1>>, <<42997, 42997, 1, 1>>,
      <<65313, 65338, 1, 32>>, <<66560, 66599, 1, 40>>,
      <<66736, 66771, 1, 40>>, <<66928, 66938, 1, 39>>,
      <<66940, 66954, 1, 39>>, <<66956, 66962, 1, 39>>,
      <<66964, 66965, 1, 39>>, <<68736, 68786, 1, 64>>,
      <<71840, 71871, 1, 32>>, <<93760, 93791, 1, 32>>,
      <<125184, 125217, 1, 34>> }

\* the case-ignorable code points, which the final-sigma rule of str.lower()
\* skips: runs <<first, last, step>>
CaseIgnorable ==
    { <<39, 39, 1>>, <<46, 46, 1>>, <<58, 58, 1>>, <<94, 96, 2>>,
      <<168, 168, 1>>, <<173, 175, 2>>, <<180, 180, 1>>, <<183, 184, 1>>,
      <<688, 879, 1>>, <<884, 885, 1>>, <<890, 890, 1>>, <<900, 901, 1>>,
      <<903, 903, 1>>, <<1155, 1161, 1>>, <<1369, 1369, 1>>,
      <<1375, 1375, 1>>, <<1425, 1469, 1>>, <<1471, 1473, 2>>,
      <<1474, 1476, 2>>, <<1477, 1479, 2>>, <<1524, 1524, 1>>,
      <<1536, 1541, 1>>, <<1552, 1562, 1>>, <<1564, 1564, 1>>,
      <<1600, 1600, 1>>, <<1611, 1631, 1>>, <<1648, 1648, 1>>,
      <<1750, 1757, 1>>, <<1759, 1768, 1>>, <<1770, 1773, 1>>,
      <<1807, 1809, 2>>, <<1840, 1866, 1>>, <<1958, 1968, 1>>,
      <<2027, 2037, 1>>, <<2042, 2042, 1>>, <<2045, 2045, 1>>,
      <<2070, 2093, 1>>, <<2137, 2139, 1>>, <<2184, 2184, 1>>,
      <<2192, 2193, 1>>, <<2200, 2207, 1>>, <<2249, 2306, 1>>,
      <<2362, 2364, 2>>, <<2369, 2376, 1>>, <<2381, 2381, 1>>,
      <<2385, 2391, 1>>, <<2402, 2403, 1>>, <<2417, 2417, 1>>,
      <<2433, 2433, 1>>, <<2492, 2492, 1>>, <<2497, 2500, 1>>,
      <<2509, 2509, 1>>, <<2530, 2531, 1>>, <<2558, 2558, 1>>,
      <<2561, 2562, 1>>, <<2620, 2620, 1>>, <<2625, 2626, 1>>,
      <<2631, 2632, 1>>, <<2635, 2637, 1>>, <<2641, 2641, 1>>,
      <<2672, 2673, 1>>, <<2677, 2677, 1>>, <<2689, 2690, 1>>,
      <<2748, 2748, 1>>, <<2753, 2757, 1>>, <<2759, 2760, 1>>,
      <<2765, 2765, 1>>, <<2786, 2787, 1>>, <<2810, 2815, 1>>,
      <<2817, 2817, 1>>, <<2876, 2876, 1>>, <<2879, 2881, 2>>,
      <<2882, 2884, 1>>, <<2893, 2893, 1>>, <<2901, 2902, 1>>,
      <<2914, 2915, 1>>, <<2946, 2946, 1>>, <<3008, 3008, 1>>,
      <<3021, 3021, 1>>, <<3072, 3072, 1>>, <<3076, 3076, 1>>,
      <<3132, 3134, 2>>, <<3135, 3136, 1>>, <<3142, 3144, 1>>,
      <<3146, 3149, 1>>, <<3157, 3158, 1>>, <<3170, 3171, 1>>,
      <<3201, 3201, 1>>, <<3260, 3260, 1>>, <<3263, 3263, 1>>,
      <<3270, 3270, 1>>, <<3276, 3277, 1>>, <<3298, 3299, 1>>,
      <<3328, 3329, 1>>, <<3387, 3388, 1>>, <<3393, 3396, 1>>,
      <<3405, 3405, 1>>, <<3426, 3427, 1>>, <<3457, 3457, 1>>,
      <<3530, 3530, 1>>, <<3538, 3540, 1>>, <<3542, 3542, 1>>,
      <<3633, 3633, 1>>, <<3636, 3642, 1>>, <<3654, 3662, 1>>,
      <<3761, 3761, 1>>, <<3764, 3772, 1>>, <<3782, 3784, 2>>,
      <<3785, 3789, 1>>, <<3864, 3865, 1>>, <<3893, 3897, 2>>,
      <<3953, 3966, 1>>, <<3968, 3972, 1>>, <<3974, 3975, 1>>,
      <<3981, 3991, 1>>, <<3993, 4028, 1>>, <<4038, 4038, 1>>,
      <<4141, 4144, 1>>, <<4146, 4151, 1>>, <<4153, 4154, 1>>,
      <<4157, 4158, 1>>, <<4184, 4185, 1>>, <<4190, 4192, 1>>,
      <<4209, 4212, 1>>, <<4226, 4226, 1>>, <<4229, 4230, 1>>,
      <<4237, 4237, 1>>, <<4253, 4253, 1>>, <<4348, 4348, 1>>,
      <<4957, 4959, 1>>, <<5906, 5908, 1>>, <<5938, 5939, 1>>,
      <<5970, 5971, 1>>, <<6002, 6003, 1>>, <<6068, 6069, 1>>,
      <<6071, 6077, 1>>, <<6086, 6086, 1>>, <<6089, 6099, 1>>,
      <<6103, 6103, 1>>, <<6109, 6109, 1>>, <<6155, 6159, 1>>,
      <<6211, 6211, 1>>, <<6277, 6278, 1>>, <<6313, 6313, 1>>,
      <<6432, 6434, 1>>, <<6439, 6440, 1>>, <<6450, 6450, 1>>,
      <<6457, 6459, 1>>, <<6679, 6680, 1>>, <<6683, 6683, 1>>,
      <<6742, 6744, 2>>, <<6745, 6750, 1>>, <<6752, 6754, 2>>,
      <<6757, 6764, 1>>, <<6771, 6780, 1>>, <<6783, 6783, 1>>,
      <<6823, 6823, 1>>, <<6832, 6862, 1>>, <<6912, 6915, 1>>,
      <<6964, 6966, 2>>, <<6967, 6970, 1>>, <<6972, 6972, 1>>,
      <<6978, 6978, 1>>, <<7019, 7027, 1>>, <<7040, 7041, 1>>,
      <<7074, 7077, 1>>, <<7080, 7081, 1>>, <<7083, 7085, 1>>,
      <<7142, 7144, 2>>, <<7145, 7145, 1>>, <<7149, 7151, 2>>,
      <<7152, 7153, 1>>, <<7212, 7219, 1>>, <<7222, 7223, 1>>,
      <<7288, 7293, 1>>, <<7376, 7378, 1>>, <<7380, 7392, 1>>,
      <<7394, 7400, 1>>, <<7405, 7405, 1>>, <<7412, 7412, 1>>,
      <<7416, 7417, 1>>, <<7468, 7530, 1>>, <<7544, 7544, 1>>,
      <<7579, 7679, 1>>, <<8125, 8127, 2>>, <<8128, 8129, 1>>,
      <<8141, 8143, 1>>, <<8157, 8159, 1>>, <<8173, 8175, 1>>,
      <<8189, 8190, 1>>, <<8203, 8207, 1>>, <<8216, 8217, 1>>,
      <<8228, 8228, 1>>, <<8231, 8231, 1>>, <<8234, 8238, 1>>,
      <<8288, 8292, 1>>, <<8294, 8303, 1>>, <<8305, 8305, 1>>,
      <<8319, 8319, 1>>, <<8336, 8348, 1>>, <<8400, 8432, 1>>,
      <<11388, 11389, 1>>, <<11503, 11505, 1>>, <<11631, 11631, 1>>,
      <<11647, 11647, 1>>, <<11744, 11775, 1>>, <<11823, 11823, 1>>,
      <<12293, 12293, 1>>, <<12330, 12333, 1>>, <<12337, 12341, 1>>,
      <<12347, 12347, 1>>, <<12441, 12446, 1>>, <<12540, 12542, 1>>,
      <<40981, 40981, 1>>, <<42232, 42237, 1>>, <<42508, 42508, 1>>,
      <<42607, 42610, 1>>, <<42612, 42621, 1>>, <<42623, 42623, 1>>,
      <<42652, 42655, 1>>, <<42736, 42737, 1>>, <<42752, 42785, 1>>,
      <<42864, 42864, 1>>, <<42888, 42890, 1>>, <<42994, 42996, 1>>,
      <<43000, 43001, 1>>, <<43010, 43010, 1>>, <<43014, 43014, 1>>,
      <<43019, 43019, 1>>, <<43045, 43046, 1>>, <<43052, 43052, 1>>,
      <<43204, 43205, 1>>, <<43232, 43249, 1>>, <<43263, 43263, 1>>,
      <<43302, 43309, 1>>, <<43335, 43345, 1>>, <<43392, 43394, 1>>,
      <<43443, 43443, 1>>, <<43446, 43449, 1>>, <<43452, 43453, 1>>,
      <<43471, 43471, 1>>, <<43493, 43494, 1>>, <<43561, 43566, 1>>,
      <<43569, 43570, 1>>, <<43573, 43574, 1>>, <<43587, 43587, 1>>,
      <<43596, 43596, 1>>, <<43632, 43632, 1>>, <<43644, 43644, 1>>,
      <<43696, 43698, 2>>, <<43699, 43700, 1>>, <<43703, 43704, 1>>,
      <<43710, 43711, 1>>, <<43713, 43713, 1>>, <<43741, 43741, 1>>,
      <<43756, 43757, 1>>, <<43763, 43764, 1>>, <<43766, 43766, 1>>,
      <<43867, 43871, 1>>, <<43881, 43883, 1>>, <<44005, 44005, 1>>,
      <<44008, 44008, 1>>, <<44013, 44013, 1>>, <<64286, 64286, 1>>,
      <<64434, 64450, 1>>, <<65024, 65039, 1>>, <<65043, 65043, 1>>,
      <<65056, 65071, 1>>, <<65106, 65106, 1>>, <<65109, 65109, 1>>,
      <<65279, 65279, 1>>, <<65287, 65287, 1>>, <<65294, 65294, 1>>,
      <<65306, 65306, 1>>, <<65342, 65344, 2>>, <<65392, 65392, 1>>,
      <<65438, 65439, 1>>, <<65507, 65507, 1>>, <<65529, 65531, 1>>,
      <<66045, 66045, 1>>, <<66272, 66272, 1>>, <<66422, 66426, 1>>,
      <<67456, 67461, 1>>, <<67463, 67504, 1>>, <<67506, 67514, 1>>,
      <<68097, 68099, 1>>, <<68101, 68102, 1>>, <<68108, 68111, 1>>,
      <<68152, 68154, 1>>, <<68159, 68159, 1>>, <<68325, 68326, 1>>,
      <<68900, 68903, 1>>, <<69291, 69292, 1>>, <<69446, 69456, 1>>,
      <<69506, 69509, 1>>, <<69633, 69633, 1>>, <<69688, 69702, 1>>,
      <<69744, 69744, 1>>, <<69747, 69748, 1>>, <<69759, 69761, 1>>,
      <<69811, 69814, 1>>, <<69817, 69818, 1>>, <<69821, 69821, 1>>,
      <<69826, 69826, 1>>, <<69837, 69837, 1>>, <<69888, 69890, 1>>,
      <<69927, 69931, 1>>, <<69933, 69940, 1>>, <<70003, 70003, 1>>,
      <<70016, 70017, 1>>, <<70070, 70078, 1>>, <<70089, 70092, 1>>,
      <<70095, 70095, 1>>, <<70191, 70193, 1>>, <<70196, 70198, 2>>,
      <<70199, 70199, 1>>, <<70206, 70206, 1>>, <<70367, 70367, 1>>,
      <<70371, 70378, 1>>, <<70400, 70401, 1>>, <<70459, 70460, 1>>,
      <<70464, 70464, 1>>, <<70502, 70508, 1>>, <<70512, 70516, 1>>,
      <<70712, 70719, 1>>, <<70722, 70724, 1>>, <<70726, 70726, 1>>,
      <<70750, 70750, 1>>, <<70835, 70840, 1>>, <<70842, 70842, 1>>,
      <<70847, 70848, 1>>, <<70850, 70851, 1>>, <<71090, 71093, 1>>,
      <<71100, 71101, 1>>, <<71103, 71104, 1>>, <<71132, 71133, 1>>,
      <<71219, 71226, 1>>, <<71229, 71231, 2>>, <<71232, 71232, 1>>,
      <<71339, 71341, 2>>, <<71344, 71349, 1>>, <<71351, 71351, 1>>,
      <<71453, 71455, 1>>, <<71458, 71461, 1>>, <<71463, 71467, 1>>,
      <<71727, 71735, 1>>, <<71737, 71738, 1>>, <<71995, 71996, 1>>,
      <<71998, 71998, 1>>, <<72003, 72003, 1>>, <<72148, 72151, 1>>,
      <<72154, 72155, 1>>, <<72160, 72160, 1>>, <<72193, 72202, 1>>,
      <<72243, 72248, 1>>, <<72251, 72254, 1>>, <<72263, 72263, 1>>,
      <<72273, 72278, 1>>, <<72281, 72283, 1>>, <<72330, 72342, 1>>,
      <<72344, 72345, 1>>, <<72752, 72758, 1>>, <<72760, 72765, 1>>,
      <<72767, 72767, 1>>, <<72850, 72871, 1>>, <<72874, 72880, 1>>,
      <<72882, 72883, 1>>, <<72885, 72886, 1>>, <<73009, 73014, 1>>,
      <<73018, 73020, 2>>, <<73021, 73023, 2>>, <<73024, 73029, 1>>,
      <<73031, 73031, 1>>, <<73104, 73105, 1>>, <<73109, 73111, 2>>,
      <<73459, 73460, 1>>, <<78896, 78904, 1>>, <<92912, 92916, 1>>,
      <<92976, 92982, 1>>, <<92992, 92995, 1>>, <<94031, 94031, 1>>,
      <<94095, 94111, 1>>, <<94176, 94177, 1>>, <<94179, 94180, 1>>,
      <<110576, 110579, 1>>, <<110581, 110587, 1>>, <<110589, 110590, 1>>,
      <<113821, 113822, 1>>, <<113824, 113827, 1>>, <<118528, 118573, 1>>,
      <<118576, 118598, 1>>, <<119143, 119145, 1>>, <<119155, 119170, 1>>,
      <<119173, 119179, 1>>, <<119210, 119213, 1>>, <<119362, 119364, 1>>,
      <<121344, 121398, 1>>, <<121403, 121452, 1>>, <<121461, 121461, 1>>,
      <<121476, 121476, 1>>, <<121499, 121503, 1>>, <<121505, 121519, 1>>,
      <<122880, 122886, 1>>, <<122888, 122904, 1>>, <<122907, 122913, 1>>,
      <<122915, 122916, 1>>, <<122918, 122922, 1>>, <<123184, 123197, 1>>,
      <<123566, 123566, 1>>, <<123628, 123631, 1>>, <<125136, 125142, 1>>,
      <<125252, 125259, 1>>, <<127995, 127999, 1>>, <<917505, 917505, 1>>,
      <<917536, 917631, 1>>, <<917760, 917999, 1>> }

\* the cased code points among those that are not case-ignorable (the
\* final-sigma rule tests no others): runs <<first, last, step>>
CasedNotIgnorable ==
    { <<65, 90, 1>>, <<97, 122, 1>>, <<170, 170, 1>>, <<181, 181, 1>>,
      <<186, 186, 1>>, <<192, 214, 1>>, <<216, 246, 1>>, <<248, 442, 1>>,
      <<444, 447, 1>>, <<452, 659, 1>>, <<661, 687, 1>>, <<880, 883, 1>>,
      <<886, 887, 1>>, <<891, 893, 1>>, <<895, 895, 1>>, <<902, 904, 2>>,
      <<905, 906, 1>>, <<908, 910, 2>>, <<911, 929, 1>>, <<931, 1013, 1>>,
      <<1015, 1153, 1>>, <<1162, 1327, 1>>, <<1329, 1366, 1>>,
      <<1376, 1416, 1>>, <<4256, 4293, 1>>, <<4295, 4295, 1>>,
      <<4301, 4301, 1>>, <<4304, 4346, 1>>, <<4349, 4351, 1>>,
      <<5024, 5109, 1>>, <<5112, 5117, 1>>, <<7296, 7304, 1>>,
      <<7312, 7354, 1>>, <<7357, 7359, 1>>, <<7424, 7467, 1>>,
      <<7531, 7543, 1>>, <<7545, 7578, 1>>, <<7680, 7957, 1>>,
      <<7960, 7965, 1>>, <<7968, 8005, 1>>, <<8008, 8013, 1>>,
      <<8016, 8023, 1>>, <<8025, 8031, 2>>, <<8032, 8061, 1>>,
      <<8064, 8116, 1>>, <<8118, 8124, 1>>, <<8126, 8126, 1>>,
      <<8130, 8132, 1>>, <<8134, 8140, 1>>, <<8144, 8147, 1>>,
      <<8150, 8155, 1>>, <<8160, 8172, 1>>, <<8178, 8180, 1>>,
      <<8182, 8188, 1>>, <<8450, 8450, 1>>, <<8455, 8455, 1>>,
      <<8458, 8467, 1>>, <<8469, 8469, 1>>, <<8473, 8477, 1>>,
      <<8484, 8490, 2>>, <<8491, 8493, 1>>, <<8495, 8500, 1>>,
      <<8505, 8505, 1>>, <<8508, 8511, 1>>, <<8517, 8521, 1>>,
      <<8526, 8526, 1>>, <<8544, 8575, 1>>, <<8579, 8580, 1>>,
      <<9398, 9449, 1>>, <<11264, 11387, 1>>, <<11390, 11492, 1>>,
      <<11499, 11502, 1>>, <<11506, 11507, 1>>, <<11520, 11557, 1>>,
      <<11559, 11559, 1>>, <<11565, 11565, 1>>, <<42560, 42605, 1>>,
      <<42624, 42651, 1>>, <<42786, 42863, 1>>, <<42865, 42887, 1>>,
      <<42891, 42894, 1>>, <<42896, 42954, 1>>, <<42960, 42961, 1>>,
      <<42963, 42965, 2>>, <<42966, 42969, 1>>, <<42997, 42998, 1>>,
      <<43002, 43002, 1>>, <<43824, 43866, 1>>, <<43872, 43880, 1>>,
      <<43888, 43967, 1>>, <<64256, 64262, 1>>, <<64275, 64279, 1>>,
      <<65313, 65338, 1>>, <<65345, 65370, 1>>, <<66560, 66639, 1>>,
      <<66736, 66771, 1>>, <<66776, 66811, 1>>, <<66928, 66938, 1>>,
      <<66940, 66954, 1>>, <<66956, 66962, 1>>, <<66964, 66965, 1>>,
      <<66967, 66977, 1>>, <<66979, 66993, 1>>, <<66995, 67001, 1>>,
      <<67003, 67004, 1>>, <<68736, 68786, 1>>, <<68800, 68850, 1>>,
      <<71840, 71903, 1>>, <<93760, 93823, 1>>, <<119808, 119892, 1>>,
      <<119894, 119964, 1>>, <<119966, 119967, 1>>, <<119970, 119970, 1>>,
      <<119973, 119974, 1>>, <<119977, 119980, 1>>, <<119982, 119993, 1>>,
      <<119995, 119997, 2>>, <<119998, 120003, 1>>, <<120005, 120069, 1>>,
      <<120071, 120074, 1>>, <<120077, 120084, 1>>, <<120086, 120092, 1>>,
      <<120094, 120121, 1>>, <<120123, 120126, 1>>, <<120128, 120132, 1>>,
      <<120134, 120134, 1>>, <<120138, 120144, 1>>, <<120146, 120485, 1>>,
      <<120488, 120512, 1>>, <<120514, 120538, 1>>, <<120540, 120570, 1>>,
      <<120572, 120596, 1>>, <<120598, 120628, 1>>, <<120630, 120654, 1>>,
      <<120656, 120686, 1>>, <<120688, 120712, 1>>, <<120714, 120744, 1>>,
      <<120746, 120770, 1>>, <<120772, 120779, 1>>, <<122624, 122633, 1>>,
      <<122635, 122654, 1>>, <<125184, 125251, 1>>, <<127280, 127305, 1>>,
      <<127312, 127337, 1>>, <<127344, 127369, 1>> }

\* str.lower() of the one-character string <<c>>: capital I with dot above
\* (304) becomes "i" and a combining dot above, every other code point
\* becomes one code point
LowerChar(c) ==
    IF c < 128 THEN (IF c \in 65..90 THEN <<c + 32>> ELSE <<c>>)
    ELSE IF c = 304 THEN <<105, 775>>
    ELSE IF InRuns(c, LowerTable)
    THEN <<c + (CHOOSE r \in LowerTable :
                   c >= r[1] /\ c <= r[2] /\ (c - r[1]) % r[3] = 0)[4]>>
    ELSE <<c>>

\* str.lower() on capital sigma (931): final sigma when the nearest code
\* point before it that is not case-ignorable is cased, and the nearest one
\* after it (if any) is not
FinalSigma(s, i) ==
    LET before == { j \in 1..(i - 1) : ~ InRuns(s[j], CaseIgnorable) }
        after  == { j \in (i + 1)..Len(s) : ~ InRuns(s[j], CaseIgnorable) }
        prev   == CHOOSE j \in before : \A k \in before : k <= j
        next   == CHOOSE j \in after : \A k \in after : j <= k
    IN  /\ before # {}
        /\ InRuns(s[prev], CasedNotIgnorable)
        /\ after # {} => ~ InRuns(s[next], CasedNotIgnorable)

\* what str.lower() puts in place of s[i]: the lower case of the code point,
\* but final sigma for a capital sigma that ends a word
LowerAt(s, i) ==
    IF s[i] = 931 /\ FinalSigma(s, i) THEN <<962>> ELSE LowerChar(s[i])

RECURSIVE LowerFrom(_, _)
LowerFrom(s, i) ==
    IF i > Len(s) THEN <<>> ELSE LowerAt(s, i) \o LowerFrom(s, i + 1)

lower(s) == LowerFrom(s, 1)

RECURSIVE lstrip(_)
lstrip(s) ==
    IF s = <<>> THEN <<>>
    ELSE IF Head(s) \in Whitespace THEN lstrip(Tail(s))
    ELSE s

RECURSIVE rstrip(_)
rstrip(s) ==
    IF s = <<>> THEN <<>>
    ELSE IF s[Len(s)] \in Whitespace THEN rstrip(SubSeq(s, 1, Len(s) - 1))
    ELSE s

strip(s) == rstrip(lstrip(s))

-----------------------------------------------------------------------------
(* The token lists of confirm_commit *)

\* ['y', 'yes', U+662F, U+78BA U+8A8D]
YesTokens == { <<121>>, <<121, 101, 115>>, <<26159>>, <<30906, 35469>> }

\* ['n', 'no', U+5426, U+53D6 U+6D88]
NoTokens == { <<110>>, <<110, 111>>, <<21542>>, <<21462, 28040>> }

-----------------------------------------------------------------------------
(* Inputs: what the operator types and what the git subprocesses return *)

\* space, "y"
LineAlphabet == {32, 121}

SeqsUpTo(S, n) == UNION { [1..k -> S] : k \in 0..n }

\* longer lines: the tokens with case and padding variants, near misses
\* (among them U+0130 and "YE" + capital sigma, which str.lower() treats
\* specially), and an ordinary commit message ("fix bug")
SampleLines ==
    { <<121, 101, 115>>, <<89, 69, 83>>, <<32, 89, 101, 115, 9>>,
      <<110, 111>>, <<78, 79, 32>>, <<26159>>, <<12288, 30906, 35469>>,
      <<21542>>, <<21462, 28040>>, <<30906, 32, 35469>>, <<121, 101>>,
      <<65337>>, <<9, 32, 12288>>, <<78>>, <<121, 78>>,
      <<304>>, <<89, 69, 931>>,
      <<102, 105, 120, 32, 98, 117, 103>> }

Lines == SeqsUpTo(LineAlphabet, MaxLineLen) \cup SampleLines

\* input() raises EOFError when standard input is exhausted; the marker is
\* no text (no code point is negative)
EOF == <<-1>>

\* exit codes of a git subprocess (128: git's fatal error)
ReturnCodes == {0, 1, 128}

\* standard output of a subprocess: nothing, a newline, " M f\n", "main\n"
Stdouts == { <<>>, <<10>>, <<32, 77, 32, 102, 10>>, <<109, 97, 105, 110, 10>> }

\* standard error of a subprocess: nothing, or "fatal"
Stderrs == { <<>>, <<102, 97, 116, 97, 108>> }

\* str(e) of the exception subprocess.run raises when git cannot be launched
LaunchError == <<69, 78, 79, 69, 78, 84>>

\* what subprocess.run does: complete with a result, or raise
Outcomes ==
    [raised : {FALSE}, returncode : ReturnCodes, stdout : Stdouts, stderr : Stderrs]
        \cup { [raised |-> TRUE, returncode |-> 0, stdout |-> <<>>, stderr |-> <<>>] }

-----------------------------------------------------------------------------
(* run_command and the argument vectors *)

\* the except branch reports success
run_command_swallows_error(o) ==
    IF o.raised
    THEN [rc |-> 0, stdout |-> <<>>, stderr |-> LaunchError]
    ELSE [rc |-> o.returncode, stdout |-> o.stdout, stderr |-> o.stderr]

run_command(o) ==
    IF o.raised
    THEN [rc |-> 1, stdout |-> <<>>, stderr |-> LaunchError]
    ELSE [rc |-> o.returncode, stdout |-> o.stdout, stderr |-> o.stderr]

RevParseArgv == <<"git", "rev-parse", "--git-dir">>
StatusArgv   == <<"git", "status", "--porcelain">>
AddArgv      == <<"git", "add", ".">>
CommitArgv(m) == <<"git", "commit", "-m", m>>
BranchArgv   == <<"git", "branch", "--show-current">>
PushArgv(b)  == <<"git", "push", "origin", b>>

Call(argv, r) == [argv |-> argv, rc |-> r.rc]

\* sys.exit(n), and the interpreter's exit after an uncaught exception
Exit(n) == pc' = "done" /\ exitCode' = <<n>>

\* staging is left out: the prompt follows the status query
main_next_without_add(step) ==
    CASE step = "check_git_repository" -> "get_git_status"
      [] step = "get_git_status"       -> "get_commit_message"
      [] step = "add_all_files"        -> "get_commit_message"
      [] step = "get_commit_message"   -> "confirm_commit"
      [] step = "confirm_commit"       -> "commit_changes"
      [] step = "commit_changes"       -> "push_to_remote"

\* an accepted confirmation is asked again
main_next_reconfirm(step) ==
    CASE step = "check_git_repository" -> "get_git_status"
      [] step = "get_git_status"       -> "add_all_files"
      [] step = "add_all_files"        -> "get_commit_message"
      [] step = "get_commit_message"   -> "confirm_commit"
      [] step = "confirm_commit"       -> "confirm_commit"
      [] step = "commit_changes"       -> "push_to_remote"

\* main(): the step that follows a step that did not end the run
main_next(step) ==
    CASE step = "check_git_repository" -> "get_git_status"
      [] step = "get_git_status"       -> "add_all_files"
      [] step = "add_all_files"        -> "get_commit_message"
      [] step = "get_commit_message"   -> "confirm_commit"
      [] step = "confirm_commit"       -> "commit_changes"
      [] step = "commit_changes"       -> "push_to_remote"

-----------------------------------------------------------------------------
(* State after the two banner lines of main() *)

Init ==
    /\ pc = "check_git_repository"
    /\ calls = <<>>
    /\ last = [rc |-> 0, stdout |-> <<>>, stderr |-> <<>>]
    /\ raised = FALSE
    /\ status = <<>>
    /\ message = <<>>
    /\ typed = <<>>
    /\ shown = <<>>
    /\ branch = <<>>
    /\ reads = 0
    /\ line = <<>>
    /\ reprompts = 0
    /\ answer = "none"
    /\ log = <<"banner">>
    /\ exitCode = <<>>

\* the exit code is ignored
check_git_repository_unchecked(r) == TRUE

check_git_repository(r) == r.rc = 0

\* main(): if not check_git_repository(): ... sys.exit(1)
CheckRepo ==
    /\ pc = "check_git_repository"
    /\ \E o \in Outcomes :
        LET r == run_command(o) IN
        /\ calls' = Append(calls, Call(RevParseArgv, r))
        /\ last' = r
        /\ raised' = o.raised
        /\ IF check_git_repository(r)
           THEN /\ pc' = main_next(pc)
                /\ UNCHANGED <<log, exitCode>>
           ELSE /\ log' = log \o <<"not_a_repository">>
                /\ Exit(1)
    /\ UNCHANGED <<status, message, typed, shown, branch, reads, line, reprompts, answer>>

\* the output is returned whatever the exit code
get_git_status_unchecked(r) == r.stdout

\* get_git_status(): the text main() stores in `status`
get_git_status(r) == IF r.rc # 0 THEN <<>> ELSE r.stdout

\* the test is inverted
no_changes_inverted(st) == st # <<>>

\* main(): `if not status`
no_changes(st) == st = <<>>

\* main(): status = get_git_status(); if not status: ... sys.exit(0)
GetStatus ==
    /\ pc = "get_git_status"
    /\ \E o \in Outcomes :
        LET r == run_command(o)
            st == get_git_status(r)
            l1 == IF r.rc # 0 THEN log \o <<"status_failed">> ELSE log
        IN
        /\ calls' = Append(calls, Call(StatusArgv, r))
        /\ last' = r
        /\ raised' = o.raised
        /\ status' = st
        /\ IF no_changes(st)
           THEN /\ log' = l1 \o <<"no_changes">>
                /\ Exit(0)
           ELSE /\ log' = l1 \o <<"changes_detected">>
                /\ pc' = main_next(pc)
                /\ UNCHANGED exitCode
    /\ UNCHANGED <<message, typed, shown, branch, reads, line, reprompts, answer>>

\* the exit code is ignored
add_all_files_unchecked(r) == TRUE

add_all_files(r) == r.rc = 0

\* main(): if not add_all_files(): sys.exit(1)
AddAll ==
    /\ pc = "add_all_files"
    /\ \E o \in Outcomes :
        LET r == run_command(o) IN
        /\ calls' = Append(calls, Call(AddArgv, r))
        /\ last' = r
        /\ raised' = o.raised
        /\ IF add_all_files(r)
           THEN /\ log' = log \o <<"adding", "add_ok">>
                /\ pc' = main_next(pc)
                /\ UNCHANGED exitCode
           ELSE /\ log' = log \o <<"adding", "add_failed">>
                /\ Exit(1)
    /\ UNCHANGED <<status, message, typed, shown, branch, reads, line, reprompts, answer>>

\* the end of input is read as one more line
eof_error_ignored(l) == FALSE

\* input(): EOFError is raised when standard input is exhausted
eof_error(l) == l = EOF

\* only trailing whitespace is removed
get_commit_message_rstrip_only(l) == rstrip(l)

\* the line is not stripped
get_commit_message_unstripped(l) == l

\* get_commit_message(): input().strip(), None (modelled as <<>>) when empty
get_commit_message(l) == strip(l)

\* get_commit_message() and main(): `if not message`
no_message(m) == m = <<>>

\* main(): message = get_commit_message(); if not message: sys.exit(1)
\* input() raising EOFError is not caught anywhere: the interpreter prints
\* the traceback and exits with status 1
GetMessage ==
    /\ pc = "get_commit_message"
    /\ \E l \in Lines \cup {EOF} :
        /\ reads' = reads + 1
        /\ line' = l
        /\ IF eof_error(l)
           THEN /\ log' = log \o <<"message_prompt", "traceback">>
                /\ Exit(1)
                /\ UNCHANGED <<message, typed, shown>>
           ELSE LET m == get_commit_message(l) IN
                /\ message' = m
                /\ typed' = l
                /\ IF no_message(m)
                   THEN /\ log' = log \o <<"message_prompt", "empty_message">>
                        /\ Exit(1)
                        /\ UNCHANGED shown
                   ELSE /\ log' = log \o <<"message_prompt", "confirm_header">>
                        /\ shown' = m
                        /\ pc' = main_next(pc)
                        /\ UNCHANGED exitCode
    /\ UNCHANGED <<calls, last, raised, status, branch, reprompts, answer>>

\* the answer is compared without lower()
confirm_commit_case_sensitive(l) ==
    LET confirm == strip(l) IN
    IF confirm \in YesTokens THEN "yes"
    ELSE IF confirm \in NoTokens THEN "no"
    ELSE "reprompt"

\* the negative tokens are accepted as a yes
confirm_commit_no_as_yes(l) ==
    LET confirm == lower(strip(l)) IN
    IF confirm \in YesTokens \cup NoTokens THEN "yes" ELSE "reprompt"

\* one iteration of the while loop of confirm_commit on the line read
confirm_commit(l) ==
    LET confirm == lower(strip(l)) IN
    IF confirm \in YesTokens THEN "yes"
    ELSE IF confirm \in NoTokens THEN "no"
    ELSE "reprompt"

\* main(): if not confirm_commit(message): ... sys.exit(0)
\* one action per input() call of the loop
Confirm ==
    /\ pc = "confirm_commit"
    /\ \E l \in Lines \cup {EOF} :
        /\ reads' = reads + 1
        /\ line' = l
        /\ IF eof_error(l)
           THEN /\ log' = log \o <<"traceback">>
                /\ Exit(1)
                /\ UNCHANGED <<answer, reprompts>>
           ELSE LET c == confirm_commit(l) IN
                CASE c = "yes" ->
                        /\ answer' = "yes"
                        /\ pc' = main_next(pc)
                        /\ UNCHANGED <<log, exitCode, reprompts>>
                  [] c = "no" ->
                        /\ answer' = "no"
                        /\ log' = log \o <<"cancelled">>
                        /\ Exit(0)
                        /\ UNCHANGED reprompts
                  [] OTHER ->
                        /\ reprompts < MaxReprompts
                        /\ reprompts' = reprompts + 1
                        /\ log' = log \o <<"enter_y_or_n">>
                        /\ UNCHANGED <<pc, answer, exitCode>>
    /\ UNCHANGED <<calls, last, raised, status, message, typed, shown, branch>>

\* the test is inverted
commit_changes_inverted(r) == r.rc # 0

commit_changes(r) == r.rc = 0

\* main(): if not commit_changes(message): sys.exit(1)
Commit ==
    /\ pc = "commit_changes"
    /\ \E o \in Outcomes :
        LET r == run_command(o) IN
        /\ calls' = Append(calls, Call(CommitArgv(message), r))
        /\ last' = r
        /\ raised' = o.raised
        /\ IF commit_changes(r)
           THEN /\ log' = log \o <<"committing", "commit_ok">>
                /\ pc' = main_next(pc)
                /\ UNCHANGED exitCode
           ELSE /\ log' = log \o <<"committing", "commit_failed">>
                /\ Exit(1)
    /\ UNCHANGED <<status, message, typed, shown, branch, reads, line, reprompts, answer>>

\* an empty branch name is rejected as a failure
branch_failed_or_empty(r) == r.rc # 0 \/ strip(r.stdout) = <<>>

\* the exit code of the branch query is ignored
branch_failed_unchecked(r) == FALSE

\* push_to_remote(): `if return_code != 0` after git branch --show-current
branch_failed(r) == r.rc # 0

\* the exit code of the push is ignored
push_failed_unchecked(r) == FALSE

\* push_to_remote(): `if return_code != 0` after git push
push_failed(r) == r.rc # 0

\* push_to_remote(), first half: git branch --show-current
\* main(): if not push_to_remote(): sys.exit(1)
PushBranch ==
    /\ pc = "push_to_remote"
    /\ \E o \in Outcomes :
        LET r == run_command(o) IN
        /\ calls' = Append(calls, Call(BranchArgv, r))
        /\ last' = r
        /\ raised' = o.raised
        /\ branch' = r.stdout
        /\ IF branch_failed(r)
           THEN /\ log' = log \o <<"pushing", "branch_failed">>
                /\ Exit(1)
           ELSE /\ log' = log \o <<"pushing">>
                /\ pc' = "git_push"
                /\ UNCHANGED exitCode
    /\ UNCHANGED <<status, message, typed, shown, reads, line, reprompts, answer>>

\* push_to_remote(), second half: branch = branch.strip(); git push origin
\* branch; then main() prints the final report and returns (exit status 0)
PushPush ==
    /\ pc = "git_push"
    /\ \E o \in Outcomes :
        LET r == run_command(o) IN
        /\ calls' = Append(calls, Call(PushArgv(strip(branch)), r))
        /\ last' = r
        /\ raised' = o.raised
        /\ IF push_failed(r)
           THEN /\ log' = log \o <<"push_failed">>
                /\ Exit(1)
           ELSE /\ log' = log \o <<"push_ok", "all_done">>
                /\ Exit(0)
    /\ UNCHANGED <<status, message, typed, shown, branch, reads, line, reprompts, answer>>

Next ==
    \/ CheckRepo
    \/ GetStatus
    \/ AddAll
    \/ GetMessage
    \/ Confirm
    \/ Commit
    \/ PushBranch
    \/ PushPush

Spec == Init /\ [][Next]_vars

TypeOK ==
    /\ pc \in {"check_git_repository", "get_git_status", "add_all_files",
               "get_commit_message", "confirm_commit", "commit_changes",
               "push_to_remote", "git_push", "done"}
    /\ exitCode \in {<<>>, <<0>>, <<1>>}
    /\ answer \in {"none", "yes", "no"}
    /\ reprompts \in 0..MaxReprompts
    /\ (pc = "done") = (exitCode # <<>>)

-----------------------------------------------------------------------------
(* Vocabulary of the properties *)

\* positions in `calls` of the invocations of one git subcommand
Invoked(tool) == { i \in 1..Len(calls) : calls[i].argv[2] = tool }

Count(tool) == Cardinality(Invoked(tool))

\* some invocation of the subcommand returned a non-zero exit code
Failed(tool) == \E i \in Invoked(tool) : calls[i].rc # 0

\* every invocation of the subcommand so far returned exit code 0
Succeeded(tool) == Invoked(tool) # {} /\ \A i \in Invoked(tool) : calls[i].rc = 0

Blank(l) == \A i \in 1..Len(l) : l[i] \in Whitespace

\* l is one of the tokens, in any letter case, between runs of whitespace
Spells(l, tokens) ==
    \E i \in 0..Len(l) : \E j \in i..Len(l) :
        /\ Blank(SubSeq(l, 1, i))
        /\ Blank(SubSeq(l, j + 1, Len(l)))
        /\ lower(SubSeq(l, i + 1, j)) \in tokens

Terminated(n) == pc = "done" /\ exitCode = <<n>>

-----------------------------------------------------------------------------
\* C1: when git rev-parse --git-dir returns a non-zero exit code, the process
\* has exited with code 1 and git add, git commit and git push were never
\* invoked.
C1_NotARepositoryExits1 ==
    Failed("rev-parse") =>
        /\ Terminated(1)
        /\ Count("add") = 0 /\ Count("commit") = 0 /\ Count("push") = 0

\* the repository check returned git's fatal status 128
C1_Witness ==
    /\ Failed("rev-parse") /\ calls[1].rc = 128
    /\ pc = "done"

\* C2: when the repository check succeeded and git status --porcelain
\* returned empty text, no add, commit, branch or push command was invoked,
\* no input line was read, and the process has exited with code 0.
C2_NoChangesExits0 ==
    (Succeeded("rev-parse") /\ Succeeded("status") /\ status = <<>>) =>
        /\ Terminated(0)
        /\ Count("add") = 0 /\ Count("commit") = 0
        /\ Count("branch") = 0 /\ Count("push") = 0
        /\ reads = 0

\* the status query exited 0 and printed nothing
C2_Witness ==
    /\ Succeeded("rev-parse") /\ Succeeded("status")
    /\ last.stdout = <<>> /\ status = <<>>
    /\ pc = "done"

\* C3: whenever some external invocation of the run returned a non-zero exit
\* code, the run ends with exit code 1 (in particular after a failed status
\* query).
C3_AnyFailedCommandExits1 ==
    (pc = "done" /\ \E i \in 1..Len(calls) : calls[i].rc # 0) => exitCode = <<1>>

\* C4: when the line read at the message prompt is empty or only whitespace,
\* the run has exited with code 1 after that single read, the confirmation
\* header was never printed, no commit, branch or push command was invoked,
\* and git add was invoked exactly once (and succeeded).
C4_BlankMessageAborts ==
    (reads = 1 /\ line # EOF /\ Blank(line)) =>
        /\ Terminated(1)
        /\ \A i \in 1..Len(log) : log[i] \notin {"confirm_header", "enter_y_or_n"}
        /\ Count("commit") = 0 /\ Count("branch") = 0 /\ Count("push") = 0
        /\ Count("add") = 1 /\ Succeeded("add")

\* the operator typed tab, space, ideographic space
C4_Witness ==
    /\ reads = 1 /\ line = <<9, 32, 12288>>
    /\ pc = "done"

-----------------------------------------------------------------------------
\* the fixed order of the external commands
Pipeline == <<"rev-parse", "status", "add", "commit", "branch", "push">>

IsPrefixOfPipeline ==
    /\ Len(calls) <= Len(Pipeline)
    /\ \A i \in 1..Len(calls) : calls[i].argv[2] = Pipeline[i]

\* the latest line was read by the confirmation loop
ConfirmLineRead == reads >= 2 /\ line # EOF

\* a step of the confirmation loop that reads a line returns true exactly
\* when the line spells an affirmative token and false exactly when it spells
\* a negative token; on any other line it stays in the loop with no answer,
\* no exit and no external command
ConfirmStepDecidesOnTokens ==
    [][ (pc = "confirm_commit" /\ reads' = reads + 1 /\ line' # EOF) =>
            /\ (answer' = "yes") = Spells(line', YesTokens)
            /\ (answer' = "no") = Spells(line', NoTokens)
            /\ (answer' = "yes") = (pc' = "commit_changes")
            /\ calls' = calls
            /\ ~ Spells(line', YesTokens \cup NoTokens) =>
                  /\ pc' = "confirm_commit"
                  /\ answer' = "none"
                  /\ exitCode' = <<>>
                  /\ reprompts' = reprompts + 1 ]_vars

\* while the loop is still prompting, every line it has read was
\* unrecognised, so the answer is that of the first recognised line
FirstRecognisedLineDecides ==
    /\ (ConfirmLineRead /\ answer = "none") =>
          /\ pc = "confirm_commit"
          /\ ~ Spells(line, YesTokens \cup NoTokens)
          /\ reads = reprompts + 1
    /\ (ConfirmLineRead /\ answer = "yes") => Spells(line, YesTokens)
    /\ (ConfirmLineRead /\ answer = "no") => Spells(line, NoTokens)

\* C5: the confirmation loop returns true iff the first line that spells a
\* token (trimmed, any letter case) spells an affirmative one, false iff it
\* spells a negative one, and on every other line re-prompts: no answer, no
\* exit, no external command.
C5_ConfirmDecidesOnTokens ==
    [] FirstRecognisedLineDecides /\ ConfirmStepDecidesOnTokens

\* " Yes<tab>" is accepted after two unrecognised lines
C5_Witness ==
    /\ answer = "yes" /\ reprompts = 2
    /\ line = <<32, 89, 101, 115, 9>>

\* C6: when a run has ended after an affirmative confirmation and every
\* command it invoked returned exit code 0, then add, commit and push were
\* each invoked exactly once, in that order, and the exit code is 0.
C6_HappyPath ==
    (answer = "yes" /\ pc = "done" /\ \A i \in 1..Len(calls) : calls[i].rc = 0) =>
        /\ exitCode = <<0>>
        /\ Count("add") = 1 /\ Count("commit") = 1 /\ Count("push") = 1
        /\ \A a \in Invoked("add") : \A c \in Invoked("commit") :
              \A p \in Invoked("push") : a < c /\ c < p
        /\ log[Len(log)] = "all_done"

\* status " M f", message "fix bug", answer "y"
C6_Witness ==
    /\ pc = "done" /\ exitCode = <<0>> /\ answer = "yes"
    /\ status = <<32, 77, 32, 102, 10>>
    /\ message = <<102, 105, 120, 32, 98, 117, 103>>
    /\ line = <<121>>
    /\ Len(calls) = 6

\* C7: once the operator has entered a negative token at the confirmation
\* prompt, the run has exited with code 0, git add was invoked exactly once
\* before, and commit, branch and push were never invoked.
C7_DeclineExits0 ==
    (ConfirmLineRead /\ Spells(line, NoTokens)) =>
        /\ answer = "no"
        /\ Terminated(0)
        /\ Count("add") = 1 /\ Succeeded("add")
        /\ Count("commit") = 0 /\ Count("branch") = 0 /\ Count("push") = 0

\* the operator answered U+53D6 U+6D88
C7_Witness ==
    /\ ConfirmLineRead /\ line = <<21462, 28040>>
    /\ pc = "done"

\* C8: when git branch --show-current returned a non-zero exit code, git push
\* was never invoked and the process has exited with code 1; the commit was
\* made before and nothing was invoked after the branch query.
C8_BranchFailureSkipsPush ==
    Failed("branch") =>
        /\ Terminated(1)
        /\ Count("push") = 0
        /\ Count("commit") = 1 /\ Succeeded("commit")
        /\ calls[Len(calls)].argv = BranchArgv

C8_Witness ==
    /\ Failed("branch") /\ calls[Len(calls)].rc = 128
    /\ pc = "done"

\* C9: when git status --porcelain returned a non-zero exit code, the status
\* text is empty whatever was written to standard output, and the run ended
\* as a run without changes does: no further command, no input read, the
\* "no changes" line printed last, exit code 0.
C9_FailedStatusIsNoChanges ==
    Failed("status") =>
        /\ status = <<>>
        /\ Len(calls) = 2
        /\ reads = 0
        /\ log[Len(log)] = "no_changes"
        /\ Terminated(0)

\* the failing status query wrote " M f" to standard output
C9_Witness ==
    /\ Failed("status")
    /\ last.stdout = <<32, 77, 32, 102, 10>>
    /\ pc = "done"

\* C10: the external commands invoked so far are a prefix of rev-parse,
\* status, add, commit, branch, push: in that order, none skipped, each at
\* most once.
C10_CallsArePrefixOfPipeline == IsPrefixOfPipeline

\* a complete run
C10_Witness ==
    /\ Len(calls) = Len(Pipeline)
    /\ calls[Len(calls)].argv[2] = "push"

-----------------------------------------------------------------------------
Printed(tag) == \E i \in 1..Len(log) : log[i] = tag

\* m is l without its leading and trailing whitespace
Trims(l, m) ==
    \E i \in 0..Len(l) : \E j \in i..Len(l) :
        /\ Blank(SubSeq(l, 1, i))
        /\ Blank(SubSeq(l, j + 1, Len(l)))
        /\ m = SubSeq(l, i + 1, j)
        /\ m # <<>> => (m[1] \notin Whitespace /\ m[Len(m)] \notin Whitespace)

\* C11: when git add returned non-zero, no input line was read and commit,
\* branch and push were never invoked; when git commit returned non-zero,
\* branch and push were never invoked; either way the process has exited
\* with code 1 and the final report was not printed.
C11_FailedStepEndsRun ==
    /\ Failed("add") =>
          /\ Terminated(1)
          /\ reads = 0
          /\ ~ Printed("message_prompt") /\ ~ Printed("confirm_header")
          /\ Count("commit") = 0 /\ Count("branch") = 0 /\ Count("push") = 0
          /\ ~ Printed("all_done")
    /\ Failed("commit") =>
          /\ Terminated(1)
          /\ Count("branch") = 0 /\ Count("push") = 0
          /\ ~ Printed("all_done")

\* git add exited with 128
C11_Witness ==
    /\ Failed("add") /\ calls[Len(calls)].rc = 128
    /\ pc = "done"

\* C12: every git commit invocation has the form git commit -m <message>
\* where the message is one non-empty argument, is the line typed at the
\* message prompt without its surrounding whitespace, is the message shown
\* in the confirmation header, and the operator answered yes; commit is
\* invoked at most once.
C12_CommitUsesConfirmedMessage ==
    /\ Count("commit") <= 1
    /\ \A i \in Invoked("commit") :
          LET argv == calls[i].argv IN
          /\ Len(argv) = 4 /\ argv[3] = "-m"
          /\ argv[4] # <<>>
          /\ Trims(typed, argv[4])
          /\ argv[4] = shown
          /\ answer = "yes"

\* the operator typed " y" as the message and it was committed as "y"
C12_Witness ==
    /\ Count("commit") = 1
    /\ typed = <<32, 121>>
    /\ calls[Len(calls)].argv = <<"git", "commit", "-m", <<121>>>>

-----------------------------------------------------------------------------
\* C13: every git push invocation follows a commit and a branch query that
\* both returned 0 and has the form git push origin <name>, the name being
\* the standard output of the branch query without its surrounding
\* whitespace; push_to_remote reports success exactly when the branch query
\* and the push both returned 0.
C13_PushTargetsOriginAndCurrentBranch ==
    /\ \A i \in Invoked("push") :
          LET argv == calls[i].argv IN
          /\ Succeeded("commit") /\ Succeeded("branch")
          /\ Len(argv) = 4 /\ argv[3] = "origin"
          /\ Trims(branch, argv[4])
    /\ (pc = "done" /\ Count("branch") >= 1) =>
          (Printed("push_ok") = (Succeeded("branch") /\ Succeeded("push")))

\* the branch query printed "main\n" and the push to origin main succeeded
C13_Witness ==
    /\ branch = <<109, 97, 105, 110, 10>>
    /\ Count("push") = 1
    /\ calls[Len(calls)].argv = <<"git", "push", "origin", <<109, 97, 105, 110>>>>
    /\ Printed("push_ok")

\* C17: once the branch query has returned 0, git push is the next command
\* whatever the name is: it is invoked with origin and the trimmed name, the
\* empty name included, and the exit code of the run is 0 exactly when that
\* push returned 0.
C17_PushWithoutBranchValidation ==
    Succeeded("branch") =>
        \/ pc = "git_push" /\ Count("push") = 0
        \/ /\ Count("push") = 1
           /\ \A i \in Invoked("push") :
                 /\ Len(calls[i].argv) = 4 /\ calls[i].argv[3] = "origin"
                 /\ Trims(branch, calls[i].argv[4])
                 /\ Blank(branch) => calls[i].argv[4] = <<>>
                 /\ Terminated(IF calls[i].rc = 0 THEN 0 ELSE 1)

\* the branch query printed only a newline (detached HEAD): push origin ""
\* was invoked and, returning 0, made the run exit 0
C17_Witness ==
    /\ Succeeded("branch") /\ branch = <<10>>
    /\ Count("push") = 1
    /\ calls[Len(calls)].argv = <<"git", "push", "origin", <<>>>>
    /\ Terminated(0)

-----------------------------------------------------------------------------
\* the line each step prints when its command returned a non-zero exit code
FailureTag(tool) ==
    CASE tool = "rev-parse" -> "not_a_repository"
      [] tool = "status"    -> "status_failed"
      [] tool = "add"       -> "add_failed"
      [] tool = "commit"    -> "commit_failed"
      [] tool = "branch"    -> "branch_failed"
      [] tool = "push"      -> "push_failed"

\* C15: when subprocess.run raised in the latest run_command call, the call
\* returned (1, "", error text), no exception reached main(), and the step
\* treated it as a non-zero exit of its command: it printed its failure line
\* and the run ended there, with exit code 1 (for the status query: with the
\* empty status and the exit code of a run without changes); a repository
\* check that cannot be launched is the only command of its run.
C15_LaunchFailureIsNonZeroExit ==
    raised =>
        LET tool == calls[Len(calls)].argv[2] IN
        /\ last.rc = 1 /\ last.stdout = <<>> /\ last.stderr # <<>>
        /\ calls[Len(calls)].rc = 1
        /\ ~ Printed("traceback")
        /\ Printed(FailureTag(tool))
        /\ pc = "done"
        /\ IF tool = "status"
           THEN status = <<>> /\ exitCode = <<0>>
           ELSE exitCode = <<1>>
        /\ tool = "rev-parse" => Len(calls) = 1

\* git could not be launched for the repository check
C15_Witness ==
    /\ raised /\ Len(calls) = 1
    /\ exitCode = <<1>>

\* C16: when input() met the end of input, at the message prompt or in the
\* confirmation loop, the run has ended with the traceback and exit code 1,
\* no answer was taken, commit, branch and push were never invoked, and the
\* successful git add is the last command of the run.
C16_EndOfInputAbortsRun ==
    (reads >= 1 /\ line = EOF) =>
        /\ Terminated(1)
        /\ log[Len(log)] = "traceback"
        /\ answer = "none"
        /\ Count("commit") = 0 /\ Count("branch") = 0 /\ Count("push") = 0
        /\ Count("add") = 1 /\ Succeeded("add")
        /\ calls[Len(calls)].argv = AddArgv

\* the input ended at the second confirmation prompt
C16_Witness ==
    /\ line = EOF /\ reads = 3 /\ reprompts = 1
    /\ pc = "done"

-----------------------------------------------------------------------------
(* Progress: subprocess.run and input() are blocking calls that return *)

\* the operator answers the confirmation prompt with one of the tokens
ConfirmRecognised ==
    Confirm /\ Spells(line', YesTokens \cup NoTokens)

\* every git command returns, the operator enters a message line, and the
\* operator eventually enters a token at the confirmation prompt
LiveSpec ==
    /\ Init /\ [][Next]_vars
    /\ WF_vars(CheckRepo) /\ WF_vars(GetStatus) /\ WF_vars(AddAll)
    /\ WF_vars(GetMessage)
    /\ WF_vars(ConfirmRecognised)
    /\ WF_vars(Commit) /\ WF_vars(PushBranch) /\ WF_vars(PushPush)

\* the order of the steps of main()
Steps ==
    <<"check_git_repository", "get_git_status", "add_all_files",
      "get_commit_message", "confirm_commit", "commit_changes",
      "push_to_remote", "git_push", "done">>

Rank(step) == CHOOSE i \in 1..Len(Steps) : Steps[i] = step

Unrecognised(l) == l # EOF /\ ~ Spells(l, YesTokens \cup NoTokens)

\* a step that reads an unrecognised line in the confirmation loop
LoopStep ==
    /\ pc = "confirm_commit" /\ pc' = "confirm_commit"
    /\ reads' = reads + 1 /\ Unrecognised(line')
    /\ calls' = calls /\ answer' = "none"

\* C14: every step moves main() forward except a pass of the confirmation
\* loop on an unrecognised line, and every unrecognised line is such a pass,
\* leaving the run in the loop with no commit and no push invoked; when the
\* commands return and the operator eventually enters a token, the run
\* eventually terminates.
C14_OnlyTheConfirmationLoopCycles ==
    /\ <>(pc = "done")
    /\ [][ Rank(pc') > Rank(pc) \/ LoopStep ]_vars
    /\ [][ (pc = "confirm_commit" /\ reads' = reads + 1 /\ Unrecognised(line'))
              => LoopStep ]_vars
    /\ [](pc = "confirm_commit" => Count("commit") = 0 /\ Count("push") = 0)

\* the operator declined after two unrecognised lines
C14_Witness ==
    /\ pc = "done" /\ answer = "no"
    /\ reprompts = 2 /\ reads = 4
====
